---- MODULE Spec2Model ----
(***************************************************************************)
(* A model of bin/lpd8_voicemeeterish.py: the bridge from an LPD8 MIDI     *)
(* controller to the volumes of PipeWire sinks.                            *)
(*                                                                         *)
(* Text (a line of `wpctl status`, a sink name, a MIDI port name, an       *)
(* argument of a command) is a sequence of one-character strings, so that  *)
(* strip, startswith, lower, the line pattern, int() and str() are         *)
(* computed the way Python computes them.                                  *)
(***************************************************************************)
EXTENDS Integers, Sequences, FiniteSets, TLC

(***************************************************************************)
(* Bounds of the model.                                                    *)
(***************************************************************************)
\* the longest status text, in lines, the resolver is run on by itself
MaxLines == 4
\* the most sink lines between the headers of a status text given to main
MaxEntries == 3
\* the most MIDI input ports the enumeration returns
MaxPorts == 2
\* the most MIDI messages the event loop consumes
MaxMsgs == 2
\* the most calls of the resolver and of the port locator in a row
MaxCalls == 2

(***************************************************************************)
(* Characters and the str methods the program uses.                        *)
(***************************************************************************)
Digits == <<"0", "1", "2", "3", "4", "5", "6", "7", "8", "9">>

UpperCase == <<"A", "B", "C", "D", "E", "F", "G", "H", "I", "J", "K", "L", "M",
               "N", "O", "P", "Q", "R", "S", "T", "U", "V", "W", "X", "Y", "Z">>

LowerCase == <<"a", "b", "c", "d", "e", "f", "g", "h", "i", "j", "k", "l", "m",
               "n", "o", "p", "q", "r", "s", "t", "u", "v", "w", "x", "y", "z">>

Range(s) == {s[i] : i \in DOMAIN s}

\* \s of the line pattern and the characters str.strip() removes
IsSpace(c) == c \in {" ", "\t"}

\* \d of the line pattern
IsDigit(c) == c \in Range(Digits)

DigitValue(c) == (CHOOSE i \in DOMAIN Digits : Digits[i] = c) - 1

\* str.lower() on one character
LowerChar(c) ==
    IF c \in Range(UpperCase)
    THEN LowerCase[CHOOSE i \in DOMAIN UpperCase : UpperCase[i] = c]
    ELSE c

\* str.lower()
lower(s) == [i \in DOMAIN s |-> LowerChar(s[i])]

\* str.strip()
strip(s) ==
    LET keep == {i \in DOMAIN s : ~IsSpace(s[i])}
    IN  IF keep = {} THEN <<>>
        ELSE LET lo == CHOOSE i \in keep : \A j \in keep : i <= j
                 hi == CHOOSE i \in keep : \A j \in keep : j <= i
             IN  SubSeq(s, lo, hi)

\* str.startswith(prefix)
startswith(s, prefix) ==
    /\ Len(prefix) <= Len(s)
    /\ SubSeq(s, 1, Len(prefix)) = prefix

\* the operator `in` on two strings: sub is a substring of s
Contains(s, sub) ==
    \E i \in 1..(Len(s) + 1) :
        /\ i + Len(sub) - 1 <= Len(s)
        /\ SubSeq(s, i, i + Len(sub) - 1) = sub

\* int() of a string of decimal digits
RECURSIVE int(_)
int(ds) ==
    IF ds = <<>> THEN 0
    ELSE 10 * int(SubSeq(ds, 1, Len(ds) - 1)) + DigitValue(ds[Len(ds)])

\* str() of a non-negative integer
RECURSIVE str(_)
str(n) ==
    IF n < 10 THEN <<Digits[n + 1]>>
    ELSE Append(str(n \div 10), Digits[(n % 10) + 1])

(***************************************************************************)
(* The line pattern line_re, as re.match applies it to one line.  In order *)
(* the pattern asks for: any white space; optionally a star and any white  *)
(* space (group 1); one or more digits (group 2); a dot; white space; one  *)
(* or more characters, as few as possible (group 3); white space; and the  *)
(* token that opens the volume field.                                      *)
(***************************************************************************)
VolToken == <<"[", "v", "o", "l", ":">>

\* the first position at or after i whose character fails the test
\* (Len(s) + 1 when every character from i on passes)
RECURSIVE SkipSpace(_, _)
SkipSpace(s, i) ==
    IF i <= Len(s) /\ IsSpace(s[i]) THEN SkipSpace(s, i + 1) ELSE i

RECURSIVE SkipDigits(_, _)
SkipDigits(s, i) ==
    IF i <= Len(s) /\ IsDigit(s[i]) THEN SkipDigits(s, i + 1) ELSE i

\* \s+\[vol: matches at position e
TailAt(s, e) ==
    /\ e <= Len(s)
    /\ IsSpace(s[e])
    /\ LET t == SkipSpace(s, e)
       IN  /\ t + Len(VolToken) - 1 <= Len(s)
           /\ SubSeq(s, t, t + Len(VolToken) - 1) = VolToken

NoMatch == [matched |-> FALSE]

\* re.match of the line pattern: group 2 and group 3 of the match the
\* backtracking search finds first
line_re(line) ==
    LET a  == SkipSpace(line, 1)
        b  == IF a <= Len(line) /\ line[a] = "*" THEN SkipSpace(line, a + 1) ELSE a
        c  == SkipDigits(line, b)
        d  == c + 1
        w  == SkipSpace(line, d) - d
        \* k characters go to the first \s+ and group 3 ends before e
        ends(k) == {e \in (d + k + 1)..Len(line) : TailAt(line, e)}
        ks == {k \in 1..w : ends(k) # {}}
    IN  IF c = b \/ c > Len(line) \/ line[c] # "." \/ ks = {}
        THEN NoMatch
        ELSE LET k == CHOOSE x \in ks : \A y \in ks : y <= x
                 e == CHOOSE x \in ends(k) : \A y \in ends(k) : x <= y
             IN  [matched |-> TRUE,
                  group2  |-> SubSeq(line, b, c - 1),
                  group3  |-> SubSeq(line, d + k, e - 1)]

(***************************************************************************)
(* The configuration (lines 9-14) and sample text of the outside world.    *)
(***************************************************************************)
\* "LPD8"
MIDI_PORT_HINT ==
    <<"L", "P", "D", "8">>

\* "VM-GAME"
VM_GAME ==
    <<"V", "M", "-", "G", "A", "M", "E">>

\* "VM-CHAT"
VM_CHAT ==
    <<"V", "M", "-", "C", "H", "A", "T">>

\* "VM-MUSIC"
VM_MUSIC ==
    <<"V", "M", "-", "M", "U", "S", "I", "C">>

\* the controller numbers, in the order the dictionary literal lists them
CC_ORDER == <<1, 2, 3>>

CC_TO_BUS == (1 :> VM_GAME) @@ (2 :> VM_CHAT) @@ (3 :> VM_MUSIC)

\* "Sinks:"
SinksHeader ==
    <<"S", "i", "n", "k", "s", ":">>

\* "Sources:"
SourcesHeader ==
    <<"S", "o", "u", "r", "c", "e", "s", ":">>

\* "Sinks:"
L_Sinks ==
    <<"S", "i", "n", "k", "s", ":">>

\* " Sources:"
L_Sources ==
    <<" ", "S", "o", "u", "r", "c", "e", "s", ":">>

\* "   97. VM-GAME [vol: 1.00]"
L_Game97 ==
    <<" ", " ", " ", "9", "7", ".", " ", "V", "M", "-", "G", "A", "M", "E", " ",
      "[", "v", "o", "l", ":", " ", "1", ".", "0", "0", "]">>

\* "* 103. VM-GAME [vol:"
L_Game103 ==
    <<"*", " ", "1", "0", "3", ".", " ", "V", "M", "-", "G", "A", "M", "E", " ",
      "[", "v", "o", "l", ":">>

\* "*  103. Astro A50 Game [vol: 1.00]"
L_Astro ==
    <<"*", " ", " ", "1", "0", "3", ".", " ", "A", "s", "t", "r", "o", " ", "A",
      "5", "0", " ", "G", "a", "m", "e", " ", "[", "v", "o", "l", ":", " ", "1",
      ".", "0", "0", "]">>

\* "98. VM-CHAT [vol: 0.40]"
L_Chat98 ==
    <<"9", "8", ".", " ", "V", "M", "-", "C", "H", "A", "T", " ", "[", "v", "o",
      "l", ":", " ", "0", ".", "4", "0", "]">>

\* "  99. VM-MUSIC  [vol:"
L_Music99 ==
    <<" ", " ", "9", "9", ".", " ", "V", "M", "-", "M", "U", "S", "I", "C", " ",
      " ", "[", "v", "o", "l", ":">>

\* "97. VM-GAME" (no volume field: the pattern does not match)
L_Junk ==
    <<"9", "7", ".", " ", "V", "M", "-", "G", "A", "M", "E">>

\* "LPD8 MIDI 1"
P_LPD8 ==
    <<"L", "P", "D", "8", " ", "M", "I", "D", "I", " ", "1">>

\* "usb lpd8"
P_lower ==
    <<"u", "s", "b", " ", "l", "p", "d", "8">>

\* "Midi Through"
P_Thru ==
    <<"M", "i", "d", "i", " ", "T", "h", "r", "o", "u", "g", "h">>

\* "LPD 8"
P_LPD ==
    <<"L", "P", "D", " ", "8">>

\* the sequences of at most n elements of S
SeqsUpTo(S, n) == UNION {[1..k -> S] : k \in 0..n}

\* the status texts the resolver is run on by itself
ResolverLines == {L_Sinks, L_Sources, L_Game97, L_Game103, L_Junk}

Texts == SeqsUpTo(ResolverLines, MaxLines)

\* the status texts main may read: any of Texts, and the texts with a sinks
\* section of at most MaxEntries lines, alone or followed by a sources section
EntryLines == {L_Game97, L_Game103, L_Chat98, L_Music99, L_Junk}

Tails == {<<>>, <<L_Sources>>, <<L_Sources, L_Astro>>}

StatusTexts ==
    Texts \cup {<<L_Sinks>> \o body \o tail :
                    body \in SeqsUpTo(EntryLines, MaxEntries), tail \in Tails}

\* the enumerations of MIDI input ports
PortNames == {P_LPD8, P_lower, P_Thru, P_LPD}

PortLists == SeqsUpTo(PortNames, MaxPorts)

(***************************************************************************)
(* get_sink_ids_by_description (lines 23-51).                              *)
(***************************************************************************)
\* out = {} (line 29)
EmptyDict == [x \in {} |-> 0]

\* out.setdefault(name, sink_id): the first entry of a name is kept
DictPutFirst(d, k, v) ==
    [x \in (DOMAIN d) \cup {k} |-> IF x \in DOMAIN d THEN d[x] ELSE v]

\* out[name] = sink_id (line 49)
DictPut(d, k, v) == [x \in (DOMAIN d) \cup {k} |-> IF x = k THEN v ELSE d[x]]

\* sinks_section kept from the call before
SectionKept(section) == section

\* sinks_section = False (line 28)
SectionAtEntry(section) == FALSE

\* the locals when the loop is entered (lines 28-29)
ScanEntry(section) ==
    [sinks_section |-> SectionAtEntry(section), out |-> EmptyDict, stop |-> FALSE]

\* line.strip().startswith("Sinks:") (line 36)
IsSinksHeader(line) == startswith(strip(line), SinksHeader)

\* line.strip().startswith("Sources:") (line 39)
IsSourcesHeader(line) == startswith(strip(line), SourcesHeader)

\* the scan never ends before the last line
BreakNever(st, line) == FALSE

\* the test that ends the scan (line 39)
BreakAt(st, line) == st.sinks_section /\ IsSourcesHeader(line)

\* lines 44-49: the entry a line of the section adds
StoreMatch(out, line) ==
    LET m == line_re(line)
    IN  IF ~m.matched THEN out
        ELSE DictPut(out, strip(m.group3), int(m.group2))

\* one iteration of the loop (lines 36-49); stop is the break of line 40
ScanLine(st, line) ==
    IF IsSinksHeader(line) THEN [st EXCEPT !.sinks_section = TRUE]
    ELSE IF BreakAt(st, line) THEN [st EXCEPT !.stop = TRUE]
    ELSE IF ~st.sinks_section THEN st
    ELSE [st EXCEPT !.out = StoreMatch(st.out, line)]

\* the loop from line i of txt on
RECURSIVE ScanFrom(_, _, _)
ScanFrom(st, txt, i) ==
    IF st.stop \/ i > Len(txt) THEN st
    ELSE ScanFrom(ScanLine(st, txt[i]), txt, i + 1)

\* the function on the text sh(["wpctl", "status"]) returned
get_sink_ids_by_description(txt) == ScanFrom(ScanEntry(FALSE), txt, 1).out

(***************************************************************************)
(* find_midi_port (lines 53-58).                                           *)
(***************************************************************************)
\* MIDI_PORT_HINT.lower() in p.lower() (line 56)
PortMatchesExact(p) == Contains(p, MIDI_PORT_HINT)

PortMatches(p) == Contains(lower(p), lower(MIDI_PORT_HINT))

\* the port returned, or the RuntimeError with the ports it lists
find_midi_port(ports) ==
    LET hits == {i \in DOMAIN ports : PortMatches(ports[i])}
    IN  IF hits = {}
        THEN [found |-> FALSE, listed |-> ports]
        ELSE [found |-> TRUE,
              port  |-> ports[CHOOSE i \in hits : \A j \in hits : i <= j]]

(***************************************************************************)
(* set_volume (lines 60-62).                                               *)
(***************************************************************************)
\* round() of the quotient num / den, den > 0: to the nearest integer, a tie
\* to the even one
RoundHalfEven(num, den) ==
    LET q == num \div den
        r == num % den
    IN  IF 2 * r < den THEN q
        ELSE IF 2 * r > den THEN q + 1
        ELSE IF q % 2 = 0 THEN q ELSE q + 1

\* int((value / 127.0) * 100): the fraction cut off instead of rounded
pct_truncated(value_0_127) == (value_0_127 * 100) \div 127

\* int(round((value_0_127 / 127.0) * 100)) (line 61).  The quotient is taken
\* exactly: for an integer value the exact quotient is at least 1/254 away
\* from every half, far more than the error of the two float operations.
pct(value_0_127) == RoundHalfEven(value_0_127 * 100, 127)

\* the argument list of line 62
set_volume_cmd(node_id, value_0_127) ==
    <<"wpctl", "set-volume", str(node_id), Append(str(pct(value_0_127)), "%")>>

\* the argument list of line 27
status_cmd == <<"wpctl", "status">>

(***************************************************************************)
(* sh (lines 20-21): subprocess.check_output raises CalledProcessError     *)
(* when the command ends with a non-zero status.                           *)
(***************************************************************************)
sh_never_raises(ok) == FALSE

sh_raises(ok) == ~ok

(***************************************************************************)
(* The state.                                                              *)
(***************************************************************************)
VARIABLES
    \* main (lines 64-93)
    pc,           \* the statement main is at, "exited" once the process ended
    sinks,        \* sinks (line 66)
    bus_ids,      \* bus_ids (lines 68-73)
    ports,        \* what mido.get_input_names() returned (line 54)
    located,      \* the MIDI ports have been enumerated
    midi_port,    \* midi_port (line 75)
    handle,       \* the MIDI input of line 80: "none", "open" or "closed"
    opened,       \* how many times a MIDI input was opened
    msg,          \* msg (line 82)
    consumed,     \* how many messages the loop has taken from the port
    sh_count,     \* how many commands sh has run
    sh_last,      \* the argument list of the last of them
    sh_failed,    \* how many of them ended with a non-zero status
    error,        \* the exception that ended the process
    exit_at,      \* the statement the process ended at
    exit_status,  \* the exit status of the process, -1 while it runs
    \* get_sink_ids_by_description and find_midi_port, called on their own
    h_txt,        \* the text `wpctl status` prints
    h_ports,      \* the ports mido enumerates
    r_pc,         \* "idle" or "scan"
    r_i,          \* the line the loop of line 35 is at
    r_st,         \* the locals sinks_section and out, and whether line 40 broke
    r_results,    \* what the calls of the resolver returned, in order
    p_results,    \* what the calls of find_midi_port returned or raised
    \* set_volume, called on its own
    v_pc,         \* "call", "returned" or "raised"
    v_node_id,    \* node_id
    v_value,      \* value_0_127
    v_cmd         \* the argument list given to sh

mainVars == <<pc, sinks, bus_ids, ports, located, midi_port, handle, opened, msg,
              consumed, sh_count, sh_last, sh_failed, error, exit_at, exit_status>>

callVars == <<h_txt, h_ports, r_pc, r_i, r_st, r_results, p_results>>

volVars == <<v_pc, v_node_id, v_value, v_cmd>>

vars == <<mainVars, callVars, volVars>>

NoError == [kind |-> "none", ports |-> <<>>]

NoMsg == [type |-> "none"]

\* the messages the port delivers: control changes of the three configured
\* controllers and of controller 5, and a message of another type
Controllers == {1, 2, 3, 5}

Values == {0, 64, 100, 127}

Messages ==
    [type : {"control_change"}, control : Controllers, value : Values]
        \cup {[type |-> "note_on", note |-> 36, velocity |-> 100]}

MainInit ==
    /\ pc = "scan"
    /\ sinks = EmptyDict
    /\ bus_ids = EmptyDict
    /\ ports = <<>>
    /\ located = FALSE
    /\ midi_port = <<>>
    /\ handle = "none"
    /\ opened = 0
    /\ msg = NoMsg
    /\ consumed = 0
    /\ sh_count = 0
    /\ sh_last = <<>>
    /\ sh_failed = 0
    /\ error = NoError
    /\ exit_at = "none"
    /\ exit_status = -1

CallIdle ==
    /\ h_txt = <<>>
    /\ h_ports = <<>>
    /\ r_pc = "idle"
    /\ r_i = 1
    /\ r_st = ScanEntry(FALSE)
    /\ r_results = <<>>
    /\ p_results = <<>>

VolIdle ==
    /\ v_pc = "idle"
    /\ v_node_id = 0
    /\ v_value = 0
    /\ v_cmd = <<>>

(***************************************************************************)
(* main (lines 64-93).                                                     *)
(***************************************************************************)
\* the statements of main in the order they run: the scan (line 66), the
\* table (lines 68-73), the port (line 75), the open (line 80), the loop
SetupOrderLate == <<"scan", "locate", "open", "build", "loop">>

SetupOrder == <<"scan", "build", "locate", "open", "loop">>

Following(p) ==
    SetupOrder[(CHOOSE k \in DOMAIN SetupOrder : SetupOrder[k] = p) + 1]

\* the with statement of line 80 closes the input when its block is left
LeakedHandle(h) == h

ReleasedHandle(h) == IF h = "open" THEN "closed" ELSE h

\* every exception goes unhandled at the top level (lines 95-96)
ExitStatusSwallowed(kind) == 0

\* the status the interpreter ends with: 0 when main returns, the argument
\* of sys.exit (line 72), 130 on an interrupt, 1 on any other exception
ExitStatus(kind) ==
    CASE kind = "none" -> 0
      [] kind = "SystemExit" -> 1
      [] kind = "KeyboardInterrupt" -> 130
      [] OTHER -> 1

\* the process ends at the statement it is at, by an exception or by return
Exit(kind, listed) ==
    /\ pc' = "exited"
    /\ exit_at' = pc
    /\ error' = [kind |-> kind, ports |-> listed]
    /\ exit_status' = ExitStatus(kind)
    /\ handle' = ReleasedHandle(handle)

Continue(next) ==
    /\ pc' = next
    /\ UNCHANGED <<error, exit_at, exit_status, handle>>

\* line 66
ScanSinks ==
    /\ pc = "scan"
    /\ sh_count' = sh_count + 1
    /\ sh_last' = status_cmd
    /\ \E ok \in BOOLEAN :
        IF sh_raises(ok)
        THEN /\ sh_failed' = sh_failed + 1
             /\ Exit("CalledProcessError", <<>>)
             /\ UNCHANGED sinks
        ELSE /\ sh_failed' = IF ok THEN sh_failed ELSE sh_failed + 1
             /\ \E txt \in StatusTexts : sinks' = get_sink_ids_by_description(txt)
             /\ Continue(Following("scan"))
    /\ UNCHANGED <<bus_ids, ports, located, midi_port, opened, msg, consumed>>
    /\ UNCHANGED <<callVars, volVars>>

\* the positions in CC_ORDER of the controllers whose name is no key of s
Unresolved(s) == {k \in DOMAIN CC_ORDER : CC_TO_BUS[CC_ORDER[k]] \notin DOMAIN s}

\* lines 68-73
BuildBusIds ==
    /\ pc = "build"
    /\ LET bad  == Unresolved(sinks)
           upto == IF bad = {} THEN Len(CC_ORDER) + 1
                   ELSE CHOOSE k \in bad : \A j \in bad : k <= j
       IN  /\ bus_ids' = [cc \in {CC_ORDER[k] : k \in 1..(upto - 1)} |->
                              sinks[CC_TO_BUS[cc]]]
           /\ IF bad = {}
              THEN Continue(Following("build"))
              ELSE Exit("SystemExit", <<>>)
    /\ UNCHANGED <<sinks, ports, located, midi_port, opened, msg, consumed,
                   sh_count, sh_last, sh_failed>>
    /\ UNCHANGED <<callVars, volVars>>

\* line 75
FindPort ==
    /\ pc = "locate"
    /\ \E ps \in PortLists :
        LET r == find_midi_port(ps)
        IN  /\ ports' = ps
            /\ located' = TRUE
            /\ IF r.found
               THEN /\ midi_port' = r.port
                    /\ Continue(Following("locate"))
               ELSE /\ UNCHANGED midi_port
                    /\ Exit("RuntimeError", r.listed)
    /\ UNCHANGED <<sinks, bus_ids, opened, msg, consumed, sh_count, sh_last,
                   sh_failed>>
    /\ UNCHANGED <<callVars, volVars>>

\* line 80: mido.open_input returns the input or raises
OpenPort ==
    /\ pc = "open"
    /\ \E ok \in BOOLEAN :
        IF ok
        THEN /\ handle' = "open"
             /\ opened' = opened + 1
             /\ pc' = Following("open")
             /\ UNCHANGED <<error, exit_at, exit_status>>
        ELSE /\ Exit("OSError", <<>>)
             /\ UNCHANGED opened
    /\ UNCHANGED <<sinks, bus_ids, ports, located, midi_port, msg, consumed,
                   sh_count, sh_last, sh_failed>>
    /\ UNCHANGED <<callVars, volVars>>

\* the node set_volume is called with (line 88)
NodeIsController(ids, cc) == cc

NodeOf(ids, cc) == ids[cc]

\* the tests of lines 83 and 87
Handled(m) == m.type = "control_change" /\ m.control \in DOMAIN bus_ids

\* lines 82-88: one message taken from the port and handled
HandleMsg ==
    /\ pc = "loop"
    /\ consumed < MaxMsgs
    /\ \E m \in Messages :
        /\ msg' = m
        /\ consumed' = consumed + 1
        /\ IF Handled(m)
           THEN /\ sh_count' = sh_count + 1
                /\ sh_last' = set_volume_cmd(NodeOf(bus_ids, m.control), m.value)
                /\ \E ok \in BOOLEAN :
                    /\ sh_failed' = IF ok THEN sh_failed ELSE sh_failed + 1
                    /\ IF sh_raises(ok)
                       THEN Exit("CalledProcessError", <<>>)
                       ELSE Continue("loop")
           ELSE /\ UNCHANGED <<sh_count, sh_last, sh_failed>>
                /\ Continue("loop")
    /\ UNCHANGED <<sinks, bus_ids, ports, located, midi_port, opened>>
    /\ UNCHANGED <<callVars, volVars>>

\* the iteration of line 82 ends (the port was closed): main returns
EndOfMessages ==
    /\ pc = "loop"
    /\ Exit("none", <<>>)
    /\ UNCHANGED <<sinks, bus_ids, ports, located, midi_port, opened, msg,
                   consumed, sh_count, sh_last, sh_failed>>
    /\ UNCHANGED <<callVars, volVars>>

\* Ctrl+C (line 78): KeyboardInterrupt is raised at the statement main is at
Interrupt ==
    /\ pc # "exited"
    /\ Exit("KeyboardInterrupt", <<>>)
    /\ UNCHANGED <<sinks, bus_ids, ports, located, midi_port, opened, msg,
                   consumed, sh_count, sh_last, sh_failed>>
    /\ UNCHANGED <<callVars, volVars>>

Init == MainInit /\ CallIdle /\ VolIdle

Next ==
    \/ ScanSinks
    \/ BuildBusIds
    \/ FindPort
    \/ OpenPort
    \/ HandleMsg
    \/ EndOfMessages
    \/ Interrupt

Spec == Init /\ [][Next]_vars

(***************************************************************************)
(* get_sink_ids_by_description and find_midi_port called on their own,     *)
(* again and again while the outside world (the status text, the ports)    *)
(* stays as it is; the resolver runs its loop one line at a time.          *)
(***************************************************************************)
CallStart ==
    /\ r_pc = "idle"
    /\ r_i = 1
    /\ r_st = ScanEntry(FALSE)
    /\ r_results = <<>>
    /\ p_results = <<>>
    /\ MainInit
    /\ VolIdle

\* the resolver alone: the world is a status text
ResolveInit ==
    /\ h_txt \in Texts
    /\ h_ports = <<>>
    /\ CallStart

\* the outside world: a status text, or an enumeration of ports
ExternalStates ==
    {<<t, <<>>>> : t \in Texts} \cup {<<<<>>, ps>> : ps \in PortLists}

\* the resolver and the port locator
CallInit ==
    /\ \E w \in ExternalStates :
        /\ h_txt = w[1]
        /\ h_ports = w[2]
    /\ CallStart

\* lines 27-29: the call, up to the loop
CallResolver ==
    /\ r_pc = "idle"
    /\ Len(r_results) < MaxCalls
    /\ r_pc' = "scan"
    /\ r_i' = 1
    /\ r_st' = ScanEntry(r_st.sinks_section)
    /\ UNCHANGED <<h_txt, h_ports, r_results, p_results>>
    /\ UNCHANGED <<mainVars, volVars>>

\* lines 35-49: one iteration of the loop
ScanStep ==
    /\ r_pc = "scan"
    /\ ~r_st.stop
    /\ r_i <= Len(h_txt)
    /\ r_st' = ScanLine(r_st, h_txt[r_i])
    /\ r_i' = r_i + 1
    /\ UNCHANGED <<h_txt, h_ports, r_pc, r_results, p_results>>
    /\ UNCHANGED <<mainVars, volVars>>

\* line 51, after the last line or after the break of line 40
ReturnSinks ==
    /\ r_pc = "scan"
    /\ r_st.stop \/ r_i > Len(h_txt)
    /\ r_results' = Append(r_results, r_st.out)
    /\ r_pc' = "idle"
    /\ UNCHANGED <<h_txt, h_ports, r_i, r_st, p_results>>
    /\ UNCHANGED <<mainVars, volVars>>

\* lines 53-58
CallFindPort ==
    /\ r_pc = "idle"
    /\ Len(p_results) < MaxCalls
    /\ p_results' = Append(p_results, find_midi_port(h_ports))
    /\ UNCHANGED <<h_txt, h_ports, r_pc, r_i, r_st, r_results>>
    /\ UNCHANGED <<mainVars, volVars>>

ResolveNext ==
    \/ CallResolver
    \/ ScanStep
    \/ ReturnSinks

SpecResolve == ResolveInit /\ [][ResolveNext]_vars

CallNext ==
    \/ CallResolver
    \/ ScanStep
    \/ ReturnSinks
    \/ CallFindPort

SpecCalls == CallInit /\ [][CallNext]_vars

(***************************************************************************)
(* set_volume (lines 60-62) called with every value of a MIDI controller.  *)
(***************************************************************************)
NodeIds == {0, 7, 97, 98, 99, 103}

MidiValues == 0..127

VolInit ==
    /\ v_pc = "call"
    /\ v_node_id \in NodeIds
    /\ v_value \in MidiValues
    /\ v_cmd = <<>>
    /\ MainInit
    /\ CallIdle

SetVolume ==
    /\ v_pc = "call"
    /\ v_cmd' = set_volume_cmd(v_node_id, v_value)
    /\ \E ok \in BOOLEAN :
        v_pc' = IF sh_raises(ok) THEN "raised" ELSE "returned"
    /\ UNCHANGED <<v_node_id, v_value>>
    /\ UNCHANGED <<mainVars, callVars>>

VolNext == SetVolume

SpecVolume == VolInit /\ [][VolNext]_vars

(***************************************************************************)
(* Properties of main.                                                     *)
(***************************************************************************)
Min(S) == CHOOSE x \in S : \A y \in S : x <= y

Max(S) == CHOOSE x \in S : \A y \in S : y <= x

\* every name of CC_TO_BUS is a key of the sink table
AllResolved == \A cc \in DOMAIN CC_TO_BUS : CC_TO_BUS[cc] \in DOMAIN sinks

\* a and b are the same character, or the two cases of one letter
SameLetter(a, b) ==
    \/ a = b
    \/ \E i \in DOMAIN UpperCase : {a, b} = {UpperCase[i], LowerCase[i]}

\* hint occurs in name when the case of letters is ignored
ContainsIgnoringCase(name, hint) ==
    \E i \in 1..(Len(name) - Len(hint) + 1) :
        \A k \in 1..Len(hint) : SameLetter(name[i + k - 1], hint[k])

\* C1: in the loop, a step that consumes a message issues exactly one
\* command, wpctl set-volume with the node bus_ids holds for the message's
\* controller and the percentage of the message's value, when the message is a
\* control change whose controller is a key of bus_ids; it issues no command
\* at all for any other message.
C1_OneCommandPerMappedMessage ==
    [][consumed' = consumed + 1 =>
          IF msg'.type = "control_change" /\ msg'.control \in DOMAIN bus_ids
          THEN /\ sh_count' = sh_count + 1
               /\ sh_last' = <<"wpctl", "set-volume", str(bus_ids[msg'.control]),
                               Append(str(pct(msg'.value)), "%")>>
          ELSE /\ sh_count' = sh_count
               /\ sh_last' = sh_last]_vars

\* controller 1, mapped to VM-GAME with id 97, at value 100: the command is
\* wpctl set-volume 97 79%
C1_Witness ==
    /\ msg = [type |-> "control_change", control |-> 1, value |-> 100]
    /\ bus_ids[1] = 97
    /\ sh_last = <<"wpctl", "set-volume", <<"9", "7">>, <<"7", "9", "%">>>>

C2_Gate ==
    /\ (handle # "none" \/ opened > 0 \/ pc = "loop" \/ exit_at = "loop") =>
          /\ AllResolved
          /\ located
          /\ \E i \in DOMAIN ports : ports[i] = midi_port
          /\ ContainsIgnoringCase(midi_port, MIDI_PORT_HINT)
    /\ (pc # "scan" /\ ~AllResolved) =>
          /\ pc \in {"build", "exited"}
          /\ ~located
          /\ handle = "none"
          /\ opened = 0
          /\ sh_count <= 1
          /\ sh_count = 1 => sh_last = status_cmd

\* C2: the MIDI port is open, or the loop entered, only if every configured
\* name is in the sink table and the port locator found a matching port; when
\* a configured name is missing the process ends at the table-building step,
\* with a non-zero status, before the ports are enumerated, before a port is
\* opened and before any set-volume command.
C2_SetupGatesRunning ==
    /\ []C2_Gate
    /\ [][(pc = "build" /\ ~AllResolved) =>
              (pc' = "exited" /\ exit_status' # 0)]_vars

\* VM-GAME was found and another name was not: the process ended at the table
C2_Witness ==
    /\ pc = "exited"
    /\ exit_at = "build"
    /\ error.kind = "SystemExit"
    /\ VM_GAME \in DOMAIN sinks
    /\ sh_count = 1

\* C5: find_midi_port returns the first enumerated name that contains the
\* hint, letter case ignored, and raises RuntimeError carrying the whole list
\* of names exactly when no enumerated name contains it (the empty list too).
C5_FirstMatchingPort ==
    located =>
        LET hits == {i \in DOMAIN ports :
                        ContainsIgnoringCase(ports[i], MIDI_PORT_HINT)}
        IN  IF hits = {}
            THEN /\ pc = "exited"
                 /\ exit_at = "locate"
                 /\ error = [kind |-> "RuntimeError", ports |-> ports]
            ELSE /\ error.kind # "RuntimeError"
                 /\ midi_port = ports[Min(hits)]

\* two ports match, the first only when case is ignored: it is the one taken
C5_Witness ==
    /\ located
    /\ ports = <<P_lower, P_LPD8>>
    /\ midi_port = P_lower

\* a set-volume command has ended with a non-zero status
VolumeFailed == sh_failed > 0 /\ sh_last[2] = "set-volume"

\* C6: a failed set-volume command ends the process: the error is not caught,
\* the process has exited with a non-zero status, and from then on no message
\* is consumed and no command is issued; the failed command was issued once.
C6_VolumeFailureIsFatal ==
    /\ [](VolumeFailed =>
            /\ pc = "exited"
            /\ exit_at = "loop"
            /\ error.kind = "CalledProcessError"
            /\ exit_status # 0
            /\ sh_failed = 1)
    /\ [][VolumeFailed =>
             (consumed' = consumed /\ sh_count' = sh_count /\ sh_last' = sh_last)]_vars
    /\ [][(~VolumeFailed /\ VolumeFailed') => sh_count' = sh_count + 1]_vars

\* the first message's command failed, with messages still to come
C6_Witness ==
    /\ VolumeFailed
    /\ consumed = 1
    /\ consumed < MaxMsgs
    /\ msg.control \in DOMAIN bus_ids

\* C7: the MIDI input is opened at most once, it is open only while the loop
\* runs, and in every state in which the process has ended (the messages
\* ended, an interrupt, an error out of set_volume) it is not open: if it was
\* opened, it is closed.
C7_HandleReleased ==
    /\ opened <= 1
    /\ handle = "open" => (pc = "loop" /\ opened = 1)
    /\ pc = "exited" => handle = (IF opened = 1 THEN "closed" ELSE "none")

\* the error of a set-volume command left the loop and the input is closed
C7_Witness ==
    /\ pc = "exited"
    /\ error.kind = "CalledProcessError"
    /\ exit_at = "loop"
    /\ handle = "closed"

\* C8: the exit status is 0 only when the loop ended because the messages
\* ended, with no error; it is non-zero when the process ended in Setup (the
\* status command failed, a name was unresolved, no port matched, the port
\* could not be opened) and whenever an error ended it.
C8_ExitStatus ==
    /\ pc # "exited" => exit_status = -1
    /\ pc = "exited" =>
          /\ exit_status = 0 => (exit_at = "loop" /\ error.kind = "none")
          /\ exit_at \in {"scan", "build", "locate", "open"} => exit_status # 0
          /\ error.kind # "none" => exit_status # 0
          /\ (exit_at = "loop" /\ error.kind = "none") => exit_status = 0

\* no port matched the hint: RuntimeError, status 1
C8_Witness ==
    /\ pc = "exited"
    /\ exit_at = "locate"
    /\ error.kind = "RuntimeError"
    /\ exit_status = 1

(***************************************************************************)
(* Properties of set_volume.                                               *)
(***************************************************************************)
\* s is the decimal numeral of n: digits only, no leading zero
IsNumeralOf(s, n) ==
    /\ Len(s) >= 1
    /\ \A i \in DOMAIN s : IsDigit(s[i])
    /\ Len(s) > 1 => s[1] # "0"
    /\ int(s) = n

\* C3: for every value v in 0..127, set_volume runs wpctl set-volume with
\* str(node_id) and "<pct>%", where pct is the integer nearest to 100*v/127
\* (never a tie), so pct is in 0..100, and 0 gives 0%, 64 gives 50%, 100 gives
\* 79%, 127 gives 100%.
C3_PercentIsNearest ==
    v_pc # "call" =>
        /\ Len(v_cmd) = 4
        /\ v_cmd[1] = "wpctl"
        /\ v_cmd[2] = "set-volume"
        /\ IsNumeralOf(v_cmd[3], v_node_id)
        /\ v_cmd[4][Len(v_cmd[4])] = "%"
        /\ LET digits == SubSeq(v_cmd[4], 1, Len(v_cmd[4]) - 1)
               p      == int(digits)
               twice  == 2 * (127 * p - 100 * v_value)
           IN  /\ IsNumeralOf(digits, p)
               /\ -127 < twice
               /\ twice < 127
               /\ p \in 0..100
               /\ v_value = 0 => p = 0
               /\ v_value = 64 => p = 50
               /\ v_value = 100 => p = 79
               /\ v_value = 127 => p = 100

\* set_volume(97, 100) ran wpctl set-volume 97 79%
C3_Witness ==
    /\ v_pc = "returned"
    /\ v_node_id = 97
    /\ v_value = 100
    /\ v_cmd = <<"wpctl", "set-volume", <<"9", "7">>, <<"7", "9", "%">>>>

(***************************************************************************)
(* Properties of get_sink_ids_by_description and find_midi_port.           *)
(***************************************************************************)
\* the lines of txt inside the sinks section: after the first line whose
\* trimmed content starts with "Sinks:", before the first line after it whose
\* trimmed content starts with "Sources:", the "Sinks:" lines themselves left out
SectionLines(txt) ==
    LET heads == {k \in DOMAIN txt : IsSinksHeader(txt[k])}
    IN  IF heads = {} THEN {}
        ELSE LET first == Min(heads)
                 stops == {k \in DOMAIN txt : k > first /\ IsSourcesHeader(txt[k])}
                 last  == IF stops = {} THEN Len(txt) ELSE Min(stops) - 1
             IN  {k \in (first + 1)..last : ~IsSinksHeader(txt[k])}

\* line k of txt matches the line pattern with this name
NamedLine(txt, k, name) ==
    /\ line_re(txt[k]).matched
    /\ strip(line_re(txt[k]).group3) = name

\* line k of txt matches the line pattern with this name and this identifier
EntryLine(txt, k, name, id) ==
    /\ NamedLine(txt, k, name)
    /\ int(line_re(txt[k]).group2) = id

\* the mappings scanned so far and returned so far
Mappings == {r_st.out} \cup Range(r_results)

\* C4 as stated: every entry comes from a line the pattern matches, inside
\* the sinks section, and from no line that lies after a "Sources:" line.
C4_NothingAfterAnySourcesLine ==
    \A m \in Mappings : \A name \in DOMAIN m :
        \E k \in SectionLines(h_txt) :
            /\ EntryLine(h_txt, k, name, m[name])
            /\ \A j \in 1..(k - 1) : ~IsSourcesHeader(h_txt[j])

\* C4, amended: every entry comes from a line the pattern matches inside the
\* sinks section, which opens at the first "Sinks:" line and closes at the
\* first "Sources:" line after it; no line after that closing line adds an
\* entry, and every name matched inside the section is a key of the result.
C4_OnlySectionLines ==
    /\ \A m \in Mappings : \A name \in DOMAIN m :
          \E k \in SectionLines(h_txt) : EntryLine(h_txt, k, name, m[name])
    /\ \A i \in DOMAIN r_results :
          \A k \in SectionLines(h_txt) :
              line_re(h_txt[k]).matched =>
                  strip(line_re(h_txt[k]).group3) \in DOMAIN r_results[i]

\* VM-GAME 103 comes after the "Sources:" line that closes the section: the
\* result keeps VM-GAME 97
C4_Witness ==
    /\ h_txt = <<L_Sinks, L_Game97, L_Sources, L_Game103>>
    /\ r_results # <<>>
    /\ r_results[1] = (VM_GAME :> 97)

C10_LastSeenWins ==
    /\ [](\A i \in DOMAIN r_results : \A name \in DOMAIN r_results[i] :
            LET ks == {k \in SectionLines(h_txt) : NamedLine(h_txt, k, name)}
            IN  /\ ks # {}
                /\ r_results[i][name] = int(line_re(h_txt[Max(ks)]).group2))
    /\ [][(r_i' = r_i + 1 /\ ~line_re(h_txt[r_i]).matched) =>
              r_st'.out = r_st.out]_vars

\* VM-GAME on two lines of the section, 97 then 103, and a line the pattern
\* does not match after them: the result maps VM-GAME to 103
C10_Witness ==
    /\ h_txt = <<L_Sinks, L_Game97, L_Game103, L_Junk>>
    /\ r_results # <<>>
    /\ r_results[1] = (VM_GAME :> 103)

====
